---- MODULE Spec2Model ----
(***************************************************************************)
(* The serial scale poller of docs/reference/readscale.py as a state       *)
(* machine: one sequential control flow (pc) that opens the serial port,   *)
(* sends command bursts, collects replies during a timed read window and   *)
(* prints the last reading when it changed, until KeyboardInterrupt.       *)
(*                                                                         *)
(* Text is a sequence of one-character strings; a byte the UTF-8 decoder   *)
(* rejects is the token BadByte.  Time is a logical millisecond clock      *)
(* that restarts at the head of every `while True` iteration (the program  *)
(* only ever compares time.time() with a deadline taken in the same        *)
(* iteration).  The console timestamp of a report is not modelled.         *)
(***************************************************************************)
EXTENDS Integers, Sequences, FiniteSets, TLC

(***************************************************************************)
(* Module constants of readscale.py                                        *)
(***************************************************************************)
CMD == <<"@", "P", "<", "C", "R", ">", "<", "L", "F", ">">>

REPEATS_PER_BURST == 13

LINE_DELAY_MS == 9

CHAR_DELAY_MS == 7

READ_WINDOW_MS == 160

\* serial.Serial(PORT, BAUD, timeout=0.02): a readline blocks at most 20 ms
READ_TIMEOUT_MS == 20

\* time.sleep(0.002) after an empty read
EMPTY_SLEEP_MS == 2

(***************************************************************************)
(* Bounds of the model                                                     *)
(***************************************************************************)
\* iterations of `while True` that are explored
MaxCycles == 3

\* non-empty lines the device delivers within one read window
MaxLines == 2

(***************************************************************************)
(* Characters                                                              *)
(***************************************************************************)
BadByte == "xFF"

Digits == {"0", "1", "2", "3", "4", "5", "6", "7", "8", "9"}

Signs == {"+", "-"}

Letters ==
    {"a", "b", "c", "d", "e", "f", "g", "h", "i", "j", "k", "l", "m",
     "n", "o", "p", "q", "r", "s", "t", "u", "v", "w", "x", "y", "z",
     "A", "B", "C", "D", "E", "F", "G", "H", "I", "J", "K", "L", "M",
     "N", "O", "P", "Q", "R", "S", "T", "U", "V", "W", "X", "Y", "Z"}

UnitChars == Letters \cup {"%"}

Whitespace == {" ", "\t", "\n", "\r"}

(***************************************************************************)
(* line.decode(errors="ignore").strip()                                    *)
(***************************************************************************)
IsDecodable(b) == b # BadByte

Decode(line) == SelectSeq(line, IsDecodable)

\* first index >= i of s whose character is not in S (Len(s)+1 if none)
RunEnd(s, i, S) ==
    LET stops == {j \in i..Len(s) : s[j] \notin S}
    IN  IF stops = {} THEN Len(s) + 1
        ELSE CHOOSE j \in stops : \A k \in stops : j <= k

Strip(s) ==
    LET keep == {j \in 1..Len(s) : s[j] \notin Whitespace}
    IN  IF keep = {} THEN <<>>
        ELSE LET lo == CHOOSE j \in keep : \A k \in keep : j <= k
                 hi == CHOOSE j \in keep : \A k \in keep : j >= k
             IN  SubSeq(s, lo, hi)

(***************************************************************************)
(* RE_WEIGHT = ([+-]?\d+(?:\.\d+)?)\s*([a-zA-Z%]+)?  and RE_WEIGHT.search  *)
(***************************************************************************)
\* the pattern can match starting at index i: an optional sign, then a digit
CanStart(s, i) ==
    \/ s[i] \in Digits
    \/ s[i] \in Signs /\ i + 1 <= Len(s) /\ s[i + 1] \in Digits

\* a variant whose group 1 starts after the sign: [+-]?(\d+(?:\.\d+)?)
MatchAtUnsigned(s, i) ==
    LET d0   == IF s[i] \in Signs THEN i + 1 ELSE i
        dEnd == RunEnd(s, d0, Digits)
        fEnd == IF /\ dEnd + 1 <= Len(s)
                   /\ s[dEnd] = "."
                   /\ s[dEnd + 1] \in Digits
                THEN RunEnd(s, dEnd + 1, Digits)
                ELSE dEnd
        uBeg == RunEnd(s, fEnd, Whitespace)
        uEnd == RunEnd(s, uBeg, UnitChars)
    IN  [w |-> SubSeq(s, d0, fEnd - 1),
         hasUnit |-> uEnd > uBeg,
         u |-> SubSeq(s, uBeg, uEnd - 1)]

\* the greedy match starting at i (CanStart(s, i) holds): groups 1 and 2
MatchAt(s, i) ==
    LET d0   == IF s[i] \in Signs THEN i + 1 ELSE i
        dEnd == RunEnd(s, d0, Digits)
        fEnd == IF /\ dEnd + 1 <= Len(s)
                   /\ s[dEnd] = "."
                   /\ s[dEnd + 1] \in Digits
                THEN RunEnd(s, dEnd + 1, Digits)
                ELSE dEnd
        uBeg == RunEnd(s, fEnd, Whitespace)
        uEnd == RunEnd(s, uBeg, UnitChars)
    IN  [w |-> SubSeq(s, i, fEnd - 1),
         hasUnit |-> uEnd > uBeg,
         u |-> SubSeq(s, uBeg, uEnd - 1)]

\* search: << >> (no match, None) or << m >>, m the match at the leftmost
\* index where one exists
Search(s) ==
    LET starts == {i \in 1..Len(s) : CanStart(s, i)}
    IN  IF starts = {} THEN <<>>
        ELSE << MatchAt(s, CHOOSE i \in starts : \A k \in starts : i <= k) >>

\* `u or ""`: group 2 is None when the unit did not take part in the match
UnitOrEmpty(m) == IF m.hasUnit THEN m.u ELSE <<>>

\* a variant that keeps the untrimmed text as raw
ReadingsOfUntrimmed(line) ==
    LET raw == Strip(Decode(line))
        m   == Search(raw)
    IN  IF raw = <<>> THEN <<>>
        ELSE IF m = <<>> THEN <<>>
        ELSE << [w |-> m[1].w, u |-> UnitOrEmpty(m[1]), raw |-> Decode(line)] >>

\* the body of read_window's loop for one non-empty line: the readings it
\* appends (none or one)
ReadingsOf(line) ==
    LET raw == Strip(Decode(line))
        m   == Search(raw)
    IN  IF raw = <<>> THEN <<>>
        ELSE IF m = <<>> THEN <<>>
        ELSE << [w |-> m[1].w, u |-> UnitOrEmpty(m[1]), raw |-> raw] >>

(***************************************************************************)
(* The device: what ser.readline() can return as a non-empty line.  A run  *)
(* talks to one kind of device, chosen at start.                           *)
(***************************************************************************)
Reply1250 == <<"+", "0", "1", "2", ".", "5", "0", " ", "k", "g", "\r", "\n">>

Reply1300 == <<"+", "0", "1", "3", ".", "0", "0", " ", "k", "g", "\r", "\n">>

ReplyNA == <<"N", "/", "A", "\r", "\n">>

ReplyBlank == <<"\r", "\n">>

ReplyNoise == <<BadByte, " ", BadByte, "\r", "\n">>

\* the head of a reply whose terminator has not arrived when readline
\* times out: readline returns the bytes it has
ReplyPartial == <<"N", "/">>

\* one weight written in several ways, and once with a unit
ReplyBare5 == <<"5", "\r", "\n">>

ReplyPlus5 == <<"+", "5", "\r", "\n">>

Reply5Point0 == <<"5", ".", "0", "\r", "\n">>

Reply5g == <<"5", " ", "g", "\r", "\n">>

Devices == {"scale", "idle"}

DeviceLines(d) ==
    IF d = "scale" THEN {Reply1250, Reply1300, ReplyNA}
    ELSE IF d = "idle" THEN {ReplyBlank, ReplyNA, ReplyNoise, ReplyPartial}
    ELSE {ReplyBare5, ReplyPlus5, Reply5Point0, Reply5g}

\* how long a readline that returns data has blocked: the data was already
\* buffered, or it arrived just before the read timeout
ReadDurations == {0, READ_TIMEOUT_MS}

\* readline returns data without its terminator only when the timeout expires
IsPartial(line) == line[Len(line)] # "\n"

ReadDurationsOf(line) ==
    IF IsPartial(line) THEN {READ_TIMEOUT_MS} ELSE ReadDurations

(***************************************************************************)
(* State                                                                   *)
(***************************************************************************)
VARIABLES
    pc,            \* position of the control flow in main()
    onlyOnChange,  \* ONLY_PRINT_ON_CHANGE
    dev,           \* the kind of device on the port
    cancelAt,      \* where the interrupt signal hit main(), or "none"
    exc,           \* the exception in flight, or the one that ended main()
    opened,        \* times the serial port was opened
    closed,        \* times the serial port was closed
    stopped,       \* times "Stopped." was printed
    rep,           \* `_` of the burst's for loop: repeats already sent
    idx,           \* position in cmd of send_cmd's for loop (from 1)
    writes,        \* ser.write calls of the current burst
    sent,          \* the byte of the latest ser.write of the burst
    charDelays,    \* time.sleep(char_delay_s) calls of the current burst
    lineDelays,    \* time.sleep(line_delay_s) calls of the current burst
    reads,         \* ser.readline calls of the current cycle
    heard,         \* the non-empty lines readline returned in this window
    now,           \* time.time() in ms since the head of this iteration
    end,           \* read_window's deadline
    readings,      \* read_window's list
    nlines,        \* non-empty lines read in this window
    last_weight,   \* << >> for None, << w >> for the text w
    reports,       \* the report lines printed so far, each with its cycle
    cyc,           \* per finished cycle: << >> or << its last reading >>
    probe,         \* one line given to the parse step, and what it yielded
    script         \* a run of copy_test_to_main.py: position, inputs, files

vars == <<pc, onlyOnChange, dev, cancelAt, exc, opened, closed, stopped,
          rep, idx, writes, sent, charDelays, lineDelays, reads, heard,
          now, end, readings, nlines, last_weight, reports, cyc, probe,
          script>>

\* the variables of main() in readscale.py
pollerVars == <<pc, onlyOnChange, dev, cancelAt, exc, opened, closed, stopped,
                rep, idx, writes, sent, charDelays, lineDelays, reads, heard,
                now, end, readings, nlines, last_weight, reports, cyc>>

\* no line is being parsed apart from main()
NoProbe == [line |-> <<>>, w |-> <<>>, u |-> <<>>, trimmed |-> <<>>,
            out |-> <<>>, done |-> FALSE]

\* copy_test_to_main.py is not running
NoScript == [pc |-> "off", env |-> "", fs |-> <<>>, fs0 |-> <<>>,
             wrote |-> {}, printed |-> <<>>]

\* positions inside `try:` (lines 52-66)
TryBody == {"loop", "write", "chardelay", "linedelay", "window", "wcheck",
            "report", "assign"}

\* positions inside read_window (lines 26-40)
InWindow == {"window", "wcheck"}

\* positions where the process is running main()'s own statements
Interruptible == {"start", "banner"} \cup TryBody

Init ==
    /\ pc = "start"
    /\ onlyOnChange \in BOOLEAN
    /\ dev \in Devices
    /\ cancelAt = "none"
    /\ exc = "none"
    /\ opened = 0
    /\ closed = 0
    /\ stopped = 0
    /\ rep = 0
    /\ idx = 1
    /\ writes = 0
    /\ sent = ""
    /\ charDelays = 0
    /\ lineDelays = 0
    /\ reads = 0
    /\ heard = <<>>
    /\ now = 0
    /\ end = 0
    /\ readings = <<>>
    /\ nlines = 0
    /\ last_weight = <<>>
    /\ reports = <<>>
    /\ cyc = <<>>
    /\ probe = NoProbe
    /\ script = NoScript

(***************************************************************************)
(* with serial.Serial(PORT, BAUD, timeout=0.02) as ser                     *)
(***************************************************************************)
Open ==
    /\ pc = "start"
    /\ opened' = opened + 1
    /\ pc' = "banner"
    /\ UNCHANGED <<onlyOnChange, dev, cancelAt, exc, closed, stopped, rep,
                   idx, writes, now, end, readings, nlines, last_weight,
                   reports, cyc, sent, charDelays, lineDelays, reads, heard,
                   probe, script>>

\* a variant that goes back to the constructor after it raised
OpenFailRetries ==
    /\ pc = "start"
    /\ exc = "none"
    /\ exc' = "SerialException"
    /\ pc' = "start"
    /\ UNCHANGED <<onlyOnChange, dev, cancelAt, opened, closed, stopped, rep,
                   idx, writes, now, end, readings, nlines, last_weight,
                   reports, cyc, sent, charDelays, lineDelays, reads, heard,
                   probe, script>>

\* the constructor raises SerialException: nothing is opened, main() ends
OpenFail ==
    /\ pc = "start"
    /\ exc' = "SerialException"
    /\ pc' = "exited"
    /\ UNCHANGED <<onlyOnChange, dev, cancelAt, opened, closed, stopped, rep,
                   idx, writes, now, end, readings, nlines, last_weight,
                   reports, cyc, sent, charDelays, lineDelays, reads, heard,
                   probe, script>>

\* print("Press Ctrl+C to stop.\n"), then `try:` is entered
Banner ==
    /\ pc = "banner"
    /\ pc' = "loop"
    /\ UNCHANGED <<onlyOnChange, dev, cancelAt, exc, opened, closed, stopped,
                   rep, idx, writes, now, end, readings, nlines, last_weight,
                   reports, cyc, sent, charDelays, lineDelays, reads, heard,
                   probe, script>>

\* a variant without the with block: main() is left, the port stays open
CloseLeaks ==
    /\ pc = "close"
    /\ pc' = "exited"
    /\ UNCHANGED <<onlyOnChange, dev, cancelAt, exc, opened, closed, stopped,
                   rep, idx, writes, now, end, readings, nlines, last_weight,
                   reports, cyc, sent, charDelays, lineDelays, reads, heard,
                   probe, script>>

\* Serial.__exit__: the port is closed whether or not an exception is in
\* flight; the exception, if any, leaves main()
Close ==
    /\ pc = "close"
    /\ closed' = closed + 1
    /\ pc' = "exited"
    /\ UNCHANGED <<onlyOnChange, dev, cancelAt, exc, opened, stopped, rep,
                   idx, writes, now, end, readings, nlines, last_weight,
                   reports, cyc, sent, charDelays, lineDelays, reads, heard,
                   probe, script>>

(***************************************************************************)
(* 1) burst of commands                                                    *)
(***************************************************************************)
\* `while True:` and the head of `for _ in range(REPEATS_PER_BURST)`
LoopHead ==
    /\ pc = "loop"
    /\ Len(cyc) < MaxCycles
    /\ rep' = 0
    /\ idx' = 1
    /\ writes' = 0
    /\ sent' = ""
    /\ charDelays' = 0
    /\ lineDelays' = 0
    /\ reads' = 0
    /\ now' = 0
    /\ pc' = IF REPEATS_PER_BURST > 0 THEN "write" ELSE "window"
    /\ UNCHANGED <<onlyOnChange, dev, cancelAt, exc, opened, closed, stopped,
                   end, readings, nlines, last_weight, reports, cyc, heard,
                   probe, script>>

\* a variant that sends the command back to front
ByteReversed(cmd, i) == cmd[Len(cmd) + 1 - i]

\* `for b in cmd`: the byte of the i-th iteration
ByteToWrite(cmd, i) == cmd[i]

\* ser.write(bytes([b]))
WriteByte ==
    /\ pc = "write"
    /\ writes' = writes + 1
    /\ sent' = ByteToWrite(CMD, idx)
    /\ pc' = "chardelay"
    /\ UNCHANGED <<onlyOnChange, dev, cancelAt, exc, opened, closed, stopped,
                   rep, idx, now, end, readings, nlines, last_weight, reports,
                   cyc, charDelays, lineDelays, reads, heard, probe, script>>

\* ser.write raises (the port failed): nothing in main() catches it
WriteFail ==
    /\ pc = "write"
    /\ exc' = "SerialException"
    /\ pc' = "close"
    /\ UNCHANGED <<onlyOnChange, dev, cancelAt, opened, closed, stopped, rep,
                   idx, writes, now, end, readings, nlines, last_weight,
                   reports, cyc, sent, charDelays, lineDelays, reads, heard,
                   probe, script>>

\* time.sleep(char_delay_s), then the next byte or the end of cmd
CharDelay ==
    /\ pc = "chardelay"
    /\ now' = now + CHAR_DELAY_MS
    /\ charDelays' = charDelays + 1
    /\ idx' = idx + 1
    /\ pc' = IF idx < Len(CMD) THEN "write" ELSE "linedelay"
    /\ UNCHANGED <<onlyOnChange, dev, cancelAt, exc, opened, closed, stopped,
                   rep, writes, end, readings, nlines, last_weight, reports,
                   cyc, sent, lineDelays, reads, heard, probe, script>>

\* a variant that pauses only between commands, not after the last one
LineDelayBetweenOnly ==
    /\ pc = "linedelay"
    /\ now' = now + (IF rep + 1 < REPEATS_PER_BURST THEN LINE_DELAY_MS ELSE 0)
    /\ lineDelays' = lineDelays + (IF rep + 1 < REPEATS_PER_BURST THEN 1 ELSE 0)
    /\ rep' = rep + 1
    /\ idx' = 1
    /\ pc' = IF rep + 1 < REPEATS_PER_BURST THEN "write" ELSE "window"
    /\ UNCHANGED <<onlyOnChange, dev, cancelAt, exc, opened, closed, stopped,
                   writes, end, readings, nlines, last_weight, reports, cyc,
                   sent, charDelays, reads, heard, probe, script>>

\* time.sleep(line_delay_s), send_cmd returns, then the next repeat
LineDelay ==
    /\ pc = "linedelay"
    /\ now' = now + LINE_DELAY_MS
    /\ lineDelays' = lineDelays + 1
    /\ rep' = rep + 1
    /\ idx' = 1
    /\ pc' = IF rep + 1 < REPEATS_PER_BURST THEN "write" ELSE "window"
    /\ UNCHANGED <<onlyOnChange, dev, cancelAt, exc, opened, closed, stopped,
                   writes, end, readings, nlines, last_weight, reports, cyc,
                   sent, charDelays, reads, heard, probe, script>>

(***************************************************************************)
(* 2) read replies: read_window(ser, window_s)                             *)
(***************************************************************************)
\* end = time.time() + window_s; readings = []
WindowStart ==
    /\ pc = "window"
    /\ end' = now + READ_WINDOW_MS
    /\ readings' = <<>>
    /\ nlines' = 0
    /\ heard' = <<>>
    /\ pc' = "wcheck"
    /\ UNCHANGED <<onlyOnChange, dev, cancelAt, exc, opened, closed, stopped,
                   rep, idx, writes, now, last_weight, reports, cyc, sent,
                   charDelays, lineDelays, reads, probe, script>>

\* a variant in which an empty read ends the window
ReadEmptyBreaks ==
    /\ pc = "wcheck"
    /\ now < end
    /\ now' = now + READ_TIMEOUT_MS
    /\ reads' = reads + 1
    /\ pc' = "report"
    /\ UNCHANGED <<onlyOnChange, dev, cancelAt, exc, opened, closed, stopped,
                   rep, idx, writes, end, readings, nlines, last_weight,
                   reports, cyc, sent, charDelays, lineDelays, heard, probe,
                   script>>

\* readline times out with nothing: `if not line: time.sleep(0.002); continue`
ReadEmpty ==
    /\ pc = "wcheck"
    /\ now < end
    /\ now' = now + READ_TIMEOUT_MS + EMPTY_SLEEP_MS
    /\ reads' = reads + 1
    /\ UNCHANGED <<pc, onlyOnChange, dev, cancelAt, exc, opened, closed,
                   stopped, rep, idx, writes, end, readings, nlines,
                   last_weight, reports, cyc, sent, charDelays, lineDelays,
                   heard, probe, script>>

\* a variant that puts each new reading in front of the list
ReadLinePrepends ==
    /\ pc = "wcheck"
    /\ now < end
    /\ nlines < MaxLines
    /\ \E line \in DeviceLines(dev) : \E d \in ReadDurationsOf(line) :
          /\ now' = now + d
          /\ heard' = Append(heard, line)
          /\ readings' = ReadingsOf(line) \o readings
    /\ nlines' = nlines + 1
    /\ reads' = reads + 1
    /\ UNCHANGED <<pc, onlyOnChange, dev, cancelAt, exc, opened, closed,
                   stopped, rep, idx, writes, end, last_weight, reports, cyc,
                   sent, charDelays, lineDelays, probe, script>>

\* readline returns a line: decode, strip, search, append
ReadLine ==
    /\ pc = "wcheck"
    /\ now < end
    /\ nlines < MaxLines
    /\ \E line \in DeviceLines(dev) : \E d \in ReadDurationsOf(line) :
          /\ now' = now + d
          /\ heard' = Append(heard, line)
          /\ readings' = readings \o ReadingsOf(line)
    /\ nlines' = nlines + 1
    /\ reads' = reads + 1
    /\ UNCHANGED <<pc, onlyOnChange, dev, cancelAt, exc, opened, closed,
                   stopped, rep, idx, writes, end, last_weight, reports, cyc,
                   sent, charDelays, lineDelays, probe, script>>

\* ser.readline raises (the port failed): nothing in main() catches it
ReadFail ==
    /\ pc = "wcheck"
    /\ now < end
    /\ exc' = "SerialException"
    /\ reads' = reads + 1
    /\ pc' = "close"
    /\ UNCHANGED <<onlyOnChange, dev, cancelAt, opened, closed, stopped, rep,
                   idx, writes, now, end, readings, nlines, last_weight,
                   reports, cyc, sent, charDelays, lineDelays, heard, probe,
                   script>>

\* `while time.time() < end` is false: return readings
ReturnReadings ==
    /\ pc = "wcheck"
    /\ now >= end
    /\ pc' = "report"
    /\ UNCHANGED <<onlyOnChange, dev, cancelAt, exc, opened, closed, stopped,
                   rep, idx, writes, now, end, readings, nlines, last_weight,
                   reports, cyc, sent, charDelays, lineDelays, reads, heard,
                   probe, script>>

(***************************************************************************)
(* 3) print last reading if changed                                        *)
(***************************************************************************)
\* a variant that takes the first reading of the window
FirstReading(rs) == rs[1]

\* w, u, raw = readings[-1]
LastReading(rs) == rs[Len(rs)]

\* a variant that lost the change test: every reading is reported
ShouldReportAlways(flag, w, lw) == TRUE

\* the number a weight text denotes: sign, integer digits without leading
\* zeros, fraction digits without trailing zeros
Magnitude(w) == IF w[1] \in Signs THEN SubSeq(w, 2, Len(w)) ELSE w

IntDigits(w) ==
    LET m == Magnitude(w)
        z == RunEnd(m, 1, {"0"})
    IN  SubSeq(m, z, RunEnd(m, 1, Digits) - 1)

FracDigits(w) ==
    LET m  == Magnitude(w)
        nz == {j \in (RunEnd(m, 1, Digits) + 1)..Len(m) : m[j] # "0"}
    IN  IF nz = {} THEN <<>>
        ELSE SubSeq(m, RunEnd(m, 1, Digits) + 1,
                    CHOOSE j \in nz : \A k \in nz : j >= k)

NumberOf(w) ==
    [neg  |-> w[1] = "-" /\ (IntDigits(w) # <<>> \/ FracDigits(w) # <<>>),
     int  |-> IntDigits(w),
     frac |-> FracDigits(w)]

NumEq(v, w) == NumberOf(v) = NumberOf(w)

\* a variant that compares the numbers, not the texts
ShouldReportByValue(flag, w, lw) ==
    IF flag /\ lw # <<>> THEN ~NumEq(w, lw[1]) ELSE TRUE

\* a variant that ignores ONLY_PRINT_ON_CHANGE
ShouldReportChangedOnly(flag, w, lw) == <<w>> # lw

\* not ONLY_PRINT_ON_CHANGE or w != last_weight
ShouldReport(flag, w, lw) == ~flag \/ <<w>> # lw

\* print(f"{ts}  {w} {u}   (raw: {raw})"), in cycle c
ReportLine(r, c) == [cycle |-> c, w |-> r.w, u |-> r.u, raw |-> r.raw]

\* a variant that remembers the raw line instead of the numeric text
AssignedRaw(r) == <<r.raw>>

\* last_weight = w
AssignedWeight(r) == <<r.w>>

\* a variant that leaves the loop when the window yielded nothing
EndOfCycleBreaks ==
    /\ cyc' = Append(cyc, IF readings = <<>> THEN <<>>
                          ELSE <<readings[Len(readings)]>>)
    /\ readings' = <<>>
    /\ heard' = <<>>
    /\ end' = 0
    /\ pc' = IF readings = <<>> THEN "close" ELSE "loop"

\* the iteration is over: back to `while True:`
EndOfCycle ==
    /\ cyc' = Append(cyc, IF readings = <<>> THEN <<>>
                          ELSE <<readings[Len(readings)]>>)
    /\ readings' = <<>>
    /\ heard' = <<>>
    /\ end' = 0
    /\ pc' = "loop"

\* both ifs are true: the report is printed
PrintReport ==
    /\ pc = "report"
    /\ readings # <<>>
    /\ ShouldReport(onlyOnChange, LastReading(readings).w, last_weight)
    /\ reports' = Append(reports, ReportLine(LastReading(readings), Len(cyc) + 1))
    /\ pc' = "assign"
    /\ UNCHANGED <<onlyOnChange, dev, cancelAt, exc, opened, closed, stopped,
                   rep, idx, writes, now, end, readings, nlines, last_weight,
                   cyc, sent, charDelays, lineDelays, reads, heard, probe,
                   script>>

\* last_weight = w, after the print
Assign ==
    /\ pc = "assign"
    /\ last_weight' = AssignedWeight(LastReading(readings))
    /\ EndOfCycle
    /\ UNCHANGED <<onlyOnChange, dev, cancelAt, exc, opened, closed, stopped,
                   rep, idx, writes, now, nlines, reports, sent, charDelays,
                   lineDelays, reads, probe, script>>

\* a variant that forgets the last weight when a cycle reports nothing
SkipReportForgets ==
    /\ pc = "report"
    /\ \/ readings = <<>>
       \/ /\ readings # <<>>
          /\ ~ShouldReport(onlyOnChange, LastReading(readings).w, last_weight)
    /\ last_weight' = <<>>
    /\ EndOfCycle
    /\ UNCHANGED <<onlyOnChange, dev, cancelAt, exc, opened, closed, stopped,
                   rep, idx, writes, now, nlines, reports, sent, charDelays,
                   lineDelays, reads, probe, script>>

\* no readings, or the weight text is the one last reported: nothing happens
SkipReport ==
    /\ pc = "report"
    /\ \/ readings = <<>>
       \/ /\ readings # <<>>
          /\ ~ShouldReport(onlyOnChange, LastReading(readings).w, last_weight)
    /\ EndOfCycle
    /\ UNCHANGED <<onlyOnChange, dev, cancelAt, exc, opened, closed, stopped,
                   rep, idx, writes, now, nlines, last_weight, reports, sent,
                   charDelays, lineDelays, reads, probe, script>>

(***************************************************************************)
(* Ctrl+C: KeyboardInterrupt is raised in the statement being executed.    *)
(* One interrupt signal per run is considered.                             *)
(***************************************************************************)
\* a variant that lets read_window run on when the interrupt arrives in it
CatchDeferredInWindow(p) ==
    IF p \in InWindow THEN p
    ELSE IF p \in TryBody THEN "handler"
    ELSE IF p = "banner" THEN "close"
    ELSE "exited"

\* a variant without the except clause: the interrupt leaves main()
CatchNothing(p) == IF p = "start" THEN "exited" ELSE "close"

\* where a KeyboardInterrupt raised at position p takes the control flow:
\* `except KeyboardInterrupt` covers the try body only
Catch(p) ==
    IF p \in TryBody THEN "handler"
    ELSE IF p = "banner" THEN "close"
    ELSE "exited"

Interrupt ==
    /\ pc \in Interruptible
    /\ cancelAt = "none"
    /\ cancelAt' = pc
    /\ exc' = "KeyboardInterrupt"
    /\ pc' = Catch(pc)
    /\ UNCHANGED <<onlyOnChange, dev, opened, closed, stopped, rep, idx,
                   writes, now, end, readings, nlines, last_weight, reports,
                   cyc, sent, charDelays, lineDelays, reads, heard, probe,
                   script>>

\* a variant whose handler prints and re-raises
HandlerReraises ==
    /\ pc = "handler"
    /\ stopped' = stopped + 1
    /\ pc' = "close"
    /\ UNCHANGED <<onlyOnChange, dev, cancelAt, exc, opened, closed, rep, idx,
                   writes, now, end, readings, nlines, last_weight, reports,
                   cyc, sent, charDelays, lineDelays, reads, heard, probe,
                   script>>

\* except KeyboardInterrupt: print("\nStopped."); the with block is left
Handler ==
    /\ pc = "handler"
    /\ stopped' = stopped + 1
    /\ exc' = "none"
    /\ pc' = "close"
    /\ UNCHANGED <<onlyOnChange, dev, cancelAt, opened, closed, rep, idx,
                   writes, now, end, readings, nlines, last_weight, reports,
                   cyc, sent, charDelays, lineDelays, reads, heard, probe,
                   script>>

(***************************************************************************)
(* Specifications                                                          *)
(***************************************************************************)
\* the steps of the program itself
Program ==
    \/ Open
    \/ Banner
    \/ LoopHead
    \/ WriteByte
    \/ CharDelay
    \/ LineDelay
    \/ WindowStart
    \/ ReadEmpty
    \/ ReadLine
    \/ ReturnReadings
    \/ PrintReport
    \/ Assign
    \/ SkipReport
    \/ Handler
    \/ Close

\* what the environment does to it
Environment ==
    \/ OpenFail
    \/ WriteFail
    \/ ReadFail
    \/ Interrupt

Next == Program \/ Environment

Spec == Init /\ [][Next]_vars

\* the single thread keeps running: a pending handler and the release of
\* the port are executed
FairSpec == Spec /\ WF_vars(Handler) /\ WF_vars(Close)

\* the same program on a port whose device writes one weight in several ways
InitVariants ==
    /\ pc = "start"
    /\ onlyOnChange \in BOOLEAN
    /\ dev = "variants"
    /\ cancelAt = "none"
    /\ exc = "none"
    /\ opened = 0
    /\ closed = 0
    /\ stopped = 0
    /\ rep = 0
    /\ idx = 1
    /\ writes = 0
    /\ sent = ""
    /\ charDelays = 0
    /\ lineDelays = 0
    /\ reads = 0
    /\ heard = <<>>
    /\ now = 0
    /\ end = 0
    /\ readings = <<>>
    /\ nlines = 0
    /\ last_weight = <<>>
    /\ reports = <<>>
    /\ cyc = <<>>
    /\ probe = NoProbe
    /\ script = NoScript

VariantSpec == InitVariants /\ [][Next]_vars

\* read_window keeps running: readline returns within its timeout, the sleep
\* ends, and the loop condition is evaluated again
WindowSpec ==
    Spec /\ WF_vars(WindowStart \/ ReadEmpty \/ ReadLine \/ ReturnReadings)

(***************************************************************************)
(* Vocabulary of the properties                                            *)
(***************************************************************************)
Text1250 == <<"+", "0", "1", "2", ".", "5", "0">>

Text1300 == <<"+", "0", "1", "3", ".", "0", "0">>

Unsigned1250 == <<"0", "1", "2", ".", "5", "0">>

Unsigned1300 == <<"0", "1", "3", ".", "0", "0">>

TextKg == <<"k", "g">>

Raw1250 == <<"+", "0", "1", "2", ".", "5", "0", " ", "k", "g">>

Raw1300 == <<"+", "0", "1", "3", ".", "0", "0", " ", "k", "g">>

\* finished cycles whose read window yielded a reading
YieldCycles == {c \in 1..Len(cyc) : cyc[c] # <<>>}

\* numeric text of the last reading of such a cycle
WeightOf(c) == cyc[c][1].w

\* reports printed in cycles a..b
ReportsIn(a, b) == {k \in 1..Len(reports) : reports[k].cycle \in a..b}

\* the numeric texts of the first n reports
ReportedTexts(n) == [k \in 1..n |-> reports[k].w]

\* every last reading of cycles a..b has one and the same numeric text
SameText(a, b) ==
    \A c, d \in YieldCycles \cap (a..b) : WeightOf(c) = WeightOf(d)

\* that text is new at a: the latest reading before cycle a, if any, differs
NewText(a, b) ==
    \A c \in YieldCycles :
        (c < a /\ YieldCycles \cap ((c + 1)..(a - 1)) = {})
            => \A d \in YieldCycles \cap (a..b) : WeightOf(c) # WeightOf(d)

\* the last report has been printed but `last_weight = w` has not run
Pending == reports # <<>> /\ reports[Len(reports)].cycle > Len(cyc)

\* the reports whose assignment has run
Settled == IF Pending THEN SubSeq(reports, 1, Len(reports) - 1) ELSE reports

\* the step is the assignment of line 66
IsAssign == pc = "assign" /\ pc' = "loop"

(***************************************************************************)
(* C1: with ONLY_PRINT_ON_CHANGE, over any run of finished cycles a..b     *)
(* whose last readings all carry the same numeric text (a text that is new *)
(* when the run starts), exactly one report is printed: in the first cycle *)
(* of the run that yields a reading, with that text; no later cycle of the *)
(* run prints.                                                             *)
(***************************************************************************)
C1_OneReportPerUnchangedRun ==
    onlyOnChange =>
        \A a \in 1..Len(cyc) : \A b \in a..Len(cyc) :
            LET ys == YieldCycles \cap (a..b)
            IN  (ys # {} /\ SameText(a, b) /\ NewText(a, b)) =>
                    LET first == CHOOSE c \in ys : \A d \in ys : c <= d
                    IN  \E k \in 1..Len(reports) :
                            /\ ReportsIn(a, b) = {k}
                            /\ reports[k].cycle = first
                            /\ reports[k].w = WeightOf(first)

\* three finished cycles: nothing, then the same text twice; one report, printed
\* in the second cycle
C1_Witness ==
    /\ onlyOnChange
    /\ Len(cyc) = 3
    /\ cyc[1] = <<>>
    /\ cyc[2] # <<>>
    /\ cyc[3] # <<>>
    /\ cyc[2][1].w = cyc[3][1].w
    /\ Len(reports) = 1
    /\ reports[1].cycle = 2

(***************************************************************************)
(* C2: the scenario +012.50 kg, +012.50 kg, +013.00 kg over three cycles.  *)
(***************************************************************************)
Scenario1250_1250_1300 ==
    /\ onlyOnChange
    /\ Len(cyc) >= 3
    /\ cyc[1] # <<>> /\ cyc[1][1].raw = Raw1250
    /\ cyc[2] # <<>> /\ cyc[2][1].raw = Raw1250
    /\ cyc[3] # <<>> /\ cyc[3][1].raw = Raw1300

\* C2 as stated: in the scenario the three cycles print exactly two reports,
\* whose values are 012.50 and then 013.00
C2_AsStated ==
    Scenario1250_1250_1300 =>
        /\ Cardinality(ReportsIn(1, 3)) = 2
        /\ ReportedTexts(2) = <<Unsigned1250, Unsigned1300>>

\* C2 amended: in the scenario the three cycles print exactly two reports, in
\* cycles 1 and 3, whose values are +012.50 and then +013.00 (the sign is part
\* of the numeric text), each with unit kg and the trimmed line as raw
C2_TwoSignedReports ==
    Scenario1250_1250_1300 =>
        /\ ReportsIn(1, 3) = {1, 2}
        /\ ReportedTexts(2) = <<Text1250, Text1300>>
        /\ reports[1] = [cycle |-> 1, w |-> Text1250, u |-> TextKg, raw |-> Raw1250]
        /\ reports[2] = [cycle |-> 3, w |-> Text1300, u |-> TextKg, raw |-> Raw1300]

C2_Witness ==
    /\ Scenario1250_1250_1300
    /\ Len(cyc) = 3
    /\ pc = "loop"
    /\ Len(reports) = 2

(***************************************************************************)
(* C3: last_weight is never reset to None once it holds a text; it changes *)
(* only in the assignment of line 66, to a text; and with                  *)
(* ONLY_PRINT_ON_CHANGE every execution of that assignment stores a text   *)
(* different from the one it replaces.                                     *)
(***************************************************************************)
C3_NeverClearedAlwaysDifferent ==
    [][ /\ (last_weight # <<>> => last_weight' # <<>>)
        /\ (last_weight' # last_weight => IsAssign /\ Len(last_weight') = 1)
        /\ (onlyOnChange /\ IsAssign => last_weight' # last_weight) ]_vars

\* the weight changed from one text to another and then survived a cycle
\* without readings
C3_Witness ==
    /\ Len(cyc) = 3
    /\ cyc[3] = <<>>
    /\ Len(reports) = 2
    /\ reports[1].w # reports[2].w
    /\ last_weight = <<reports[2].w>>

(***************************************************************************)
(* C4: last_weight and the reports.                                        *)
(***************************************************************************)
\* C4 as stated (its consequence): in every state last_weight is None exactly
\* while no report has been printed, and otherwise is the numeric text of the
\* most recent report
C4_AsStated ==
    last_weight = IF reports = <<>> THEN <<>>
                  ELSE <<reports[Len(reports)].w>>

\* C4 amended: last_weight is assigned only by line 66, only after a report
\* was printed in the same cycle, and to the numeric text of that report;
\* in every state it is None while no report's assignment has run and
\* otherwise the numeric text of the most recent report whose assignment has
\* run (between the print of line 65 and the assignment of line 66, and after
\* a cancellation there, it still holds the text of the report before)
C4_WeightIsLastSettledReport ==
    /\ [](last_weight = IF Settled = <<>> THEN <<>>
                        ELSE <<Settled[Len(Settled)].w>>)
    /\ [][ (IsAssign \/ last_weight' # last_weight) =>
              /\ IsAssign
              /\ Pending
              /\ reports[Len(reports)].cycle = Len(cyc) + 1
              /\ last_weight' = <<reports[Len(reports)].w>> ]_vars

\* the second report's assignment has just run
C4_Witness ==
    /\ pc = "loop"
    /\ Len(reports) = 2
    /\ reports[2].cycle = Len(cyc)
    /\ last_weight = <<reports[2].w>>
    /\ reports[1].w # reports[2].w

(***************************************************************************)
(* C5: cancellation in the middle of a read window.                        *)
(***************************************************************************)
\* C5 as stated: when the interrupt arrived inside the window's loop, control
\* is outside the window only once the deadline has been reached; and main()
\* ends with the port closed once and "Stopped." printed
C5_AsStated ==
    (cancelAt = "wcheck" /\ pc \notin InWindow) =>
        /\ now >= end
        /\ (pc = "exited" => closed = 1 /\ stopped = 1)

\* C5 amended: an interrupt that arrives inside read_window abandons the
\* window at once (the deadline is not awaited, the clock does not advance,
\* the readings collected so far are never reported), control goes to the
\* handler, and main() ends with "Stopped." printed once, the port closed
\* exactly once and no exception in flight
C5_WindowAbandoned ==
    /\ [][ (cancelAt' # cancelAt /\ pc \in InWindow) =>
              /\ pc' = "handler"
              /\ UNCHANGED <<now, reports, last_weight, cyc, closed>> ]_vars
    /\ [](cancelAt \in InWindow =>
              /\ pc \in {"handler", "close", "exited"}
              /\ ReportsIn(Len(cyc) + 1, Len(cyc) + 1) = {}
              /\ (pc = "handler" => stopped = 0 /\ closed = 0)
              /\ (pc = "close" => stopped = 1 /\ closed = 0)
              /\ (pc = "exited" => stopped = 1 /\ closed = 1 /\ exc = "none"))

\* interrupted before the deadline, with a reading already collected
C5_Witness ==
    /\ pc = "exited"
    /\ cancelAt = "wcheck"
    /\ now < end
    /\ readings # <<>>
    /\ stopped = 1
    /\ closed = 1

(***************************************************************************)
(* C6: the port is opened at most once; while main() is inside the with    *)
(* block it is open and not yet closed; whenever main() has ended it has   *)
(* been closed exactly as often as it was opened (once, on every path that *)
(* left the loop); and after the close nothing is written or read.         *)
(***************************************************************************)
C6_OpenedOnceClosedOnce ==
    /\ [](/\ opened <= 1
          /\ closed <= opened
          /\ (pc \in TryBody \cup {"banner", "handler", "close"}
                 => opened = 1 /\ closed = 0)
          /\ (pc = "exited" => closed = opened))
    /\ [][ closed >= 1 =>
              UNCHANGED <<writes, sent, reads, nlines, readings, now>> ]_vars

\* left from the report step by cancellation
C6_Witness ==
    /\ pc = "exited"
    /\ cancelAt = "assign"
    /\ opened = 1
    /\ closed = 1

(***************************************************************************)
(* C7: what takes the loop out of RUNNING.                                 *)
(***************************************************************************)
\* C7 as stated: every step that leaves the loop is the external cancellation
C7_AsStated ==
    [][ (pc \in TryBody /\ pc' \notin TryBody) => cancelAt' # cancelAt ]_vars

\* C7 amended: a step that leaves the loop is either the external
\* cancellation, which goes to the handler, or a SerialException raised by a
\* byte write or a line read, which is not caught and goes to the release of
\* the port; decoding, parsing and reporting never leave the loop
C7_LoopLeftByCancelOrSerialError ==
    [][ (pc \in TryBody /\ pc' \notin TryBody) =>
           \/ /\ cancelAt = "none"
              /\ cancelAt' = pc
              /\ exc' = "KeyboardInterrupt"
              /\ pc' = "handler"
           \/ /\ pc \in {"write", "wcheck"}
              /\ cancelAt' = cancelAt
              /\ exc' = "SerialException"
              /\ pc' = "close" ]_vars

\* a line read failed after a line had been received; no cancellation
C7_Witness ==
    /\ pc = "exited"
    /\ exc = "SerialException"
    /\ cancelAt = "none"
    /\ nlines > 0
    /\ end > 0
    /\ closed = 1

(***************************************************************************)
(* C8: once the interrupt has arrived inside the loop, main() eventually   *)
(* ends, having printed "Stopped." exactly once and closed the port, with  *)
(* no exception in flight; nothing is reported after "Stopped.".           *)
(***************************************************************************)
C8_CancelledLoopStopsCleanly ==
    /\ [](cancelAt \in TryBody =>
              /\ pc \in {"handler", "close", "exited"}
              /\ (pc = "handler" => stopped = 0)
              /\ (pc \in {"close", "exited"} => stopped = 1 /\ exc = "none")
              /\ (pc = "exited" => closed = 1))
    /\ [][ stopped >= 1 => reports' = reports ]_vars
    /\ (cancelAt \in TryBody
           ~> (pc = "exited" /\ stopped = 1 /\ closed = 1 /\ exc = "none"))

\* stopped after a report had been printed
C8_Witness ==
    /\ pc = "exited"
    /\ cancelAt = "loop"
    /\ reports # <<>>
    /\ stopped = 1
    /\ exc = "none"

(***************************************************************************)
(* C9: a cycle whose window yielded no reading prints nothing, leaves      *)
(* last_weight as it was, raises nothing and returns to the head of the    *)
(* loop, whose next step starts the next burst.                            *)
(***************************************************************************)
C9_EmptyWindowChangesNothing ==
    /\ [][ (pc = "report" /\ readings = <<>> /\ cancelAt' = cancelAt) =>
              /\ reports' = reports
              /\ last_weight' = last_weight
              /\ exc' = "none"
              /\ pc' = "loop"
              /\ cyc' = Append(cyc, <<>>) ]_vars
    /\ [][ (pc = "loop" /\ cancelAt' = cancelAt) =>
              /\ pc' = "write"
              /\ writes' = 0
              /\ rep' = 0 ]_vars
    /\ [](\A c \in 1..Len(cyc) : cyc[c] = <<>> => ReportsIn(c, c) = {})

\* two lines arrived in the second window, none was a reading: the weight
\* of the first cycle is kept and the third burst has begun
C9_Witness ==
    /\ pc = "write"
    /\ Len(cyc) = 2
    /\ cyc[1] # <<>>
    /\ cyc[2] = <<>>
    /\ nlines = 2
    /\ Len(reports) = 1
    /\ last_weight = <<cyc[1][1].w>>

(***************************************************************************)
(* C10: no cycle prints more than one report; a report carries the value,  *)
(* unit and raw line of the last reading of its window; and last_weight    *)
(* only ever takes the numeric text of the last reading.                   *)
(***************************************************************************)
C10_LastReadingOnly ==
    /\ [](\A c \in 1..(Len(cyc) + 1) : Cardinality(ReportsIn(c, c)) <= 1)
    /\ [][ reports' # reports =>
              /\ readings # <<>>
              /\ reports' = Append(reports,
                     [cycle |-> Len(cyc) + 1,
                      w     |-> readings[Len(readings)].w,
                      u     |-> readings[Len(readings)].u,
                      raw   |-> readings[Len(readings)].raw]) ]_vars
    /\ [][ last_weight' # last_weight =>
              /\ readings # <<>>
              /\ last_weight' = <<readings[Len(readings)].w>> ]_vars

\* two different readings in one window; the report printed is the second
C10_Witness ==
    /\ pc = "assign"
    /\ Len(readings) = 2
    /\ readings[1].w # readings[2].w
    /\ reports[Len(reports)].w = readings[2].w
    /\ reports[Len(reports)].raw = readings[2].raw

(***************************************************************************)
(* C11: the burst.  The k-th write of a burst sends one byte, the byte of  *)
(* CMD at position ((k-1) mod len(CMD)) + 1; every write is followed by    *)
(* one per-character delay and every repetition by one per-command delay;  *)
(* no readline is called during the burst; and read_window is entered only *)
(* from the last per-command delay, after REPEATS_PER_BURST x len(CMD)     *)
(* writes.                                                                 *)
(***************************************************************************)
BurstPositions == {"write", "chardelay", "linedelay"}

BurstWrites == REPEATS_PER_BURST * Len(CMD)

C11_BurstThenWindow ==
    /\ [](/\ (pc = "write" =>
                 /\ writes < BurstWrites
                 /\ charDelays = writes
                 /\ lineDelays * Len(CMD) <= writes
                 /\ writes < (lineDelays + 1) * Len(CMD))
          /\ (pc = "chardelay" =>
                 /\ charDelays = writes - 1
                 /\ sent = CMD[((writes - 1) % Len(CMD)) + 1])
          /\ (pc = "linedelay" =>
                 /\ charDelays = writes
                 /\ writes = (lineDelays + 1) * Len(CMD))
          /\ (pc \in BurstPositions => reads = 0)
          /\ (pc \in InWindow \cup {"report", "assign"} =>
                 /\ writes = BurstWrites
                 /\ charDelays = BurstWrites
                 /\ lineDelays = REPEATS_PER_BURST))
    /\ [][ (writes' # writes /\ pc # "loop") =>
              /\ writes' = writes + 1
              /\ sent' = CMD[(writes % Len(CMD)) + 1] ]_vars
    /\ [][ (pc = "chardelay" /\ cancelAt' = cancelAt) =>
              /\ charDelays' = charDelays + 1
              /\ now' = now + CHAR_DELAY_MS ]_vars
    /\ [][ (pc = "linedelay" /\ cancelAt' = cancelAt) =>
              /\ lineDelays' = lineDelays + 1
              /\ now' = now + LINE_DELAY_MS ]_vars
    /\ [][ (pc' = "window" /\ pc # "window") =>
              /\ pc = "linedelay"
              /\ writes = BurstWrites
              /\ reads = 0 ]_vars

\* the second cycle's burst is complete and its window is about to start
C11_Witness ==
    /\ pc = "window"
    /\ Len(cyc) = 1
    /\ writes = 130
    /\ charDelays = 130
    /\ lineDelays = 13
    /\ reads = 0
    /\ sent = ">"

(***************************************************************************)
(* C12: the list read_window builds.  A received line yields a reading     *)
(* exactly when its text contains a digit (then it is non-empty after      *)
(* decoding and trimming and the pattern matches); the list holds one      *)
(* reading per such line and nothing else, in the order of arrival, each   *)
(* with the decoded, trimmed line as raw; an empty read and a line without *)
(* a match leave the list as it is and raise nothing.                      *)
(***************************************************************************)
HasDigit(line) == \E i \in 1..Len(line) : line[i] \in Digits

\* positions in heard of the lines that carry a number
NumberLines == {k \in 1..Len(heard) : HasDigit(heard[k])}

\* how many of them arrived up to position k
Rank(k) == Cardinality({i \in NumberLines : i <= k})

C12_OneReadingPerNumberLine ==
    /\ [](pc \in {"wcheck", "report", "assign"} =>
              /\ Len(heard) = nlines
              /\ Len(readings) = Cardinality(NumberLines)
              /\ \A k \in NumberLines :
                    readings[Rank(k)].raw = Strip(Decode(heard[k])))
    /\ [][ (reads' = reads + 1 /\ nlines' = nlines) =>
              readings' = readings ]_vars
    /\ [][ nlines' = nlines + 1 =>
              /\ exc' = "none"
              /\ pc' = "wcheck"
              /\ Len(readings') \in {Len(readings), Len(readings) + 1}
              /\ SubSeq(readings', 1, Len(readings)) = readings ]_vars

\* a line without a number, then a weight: one reading, the weight
C12_Witness ==
    /\ pc = "report"
    /\ heard = <<ReplyNA, Reply1250>>
    /\ Len(readings) = 1
    /\ readings[1].raw = Raw1250

(***************************************************************************)
(* C13: with ONLY_PRINT_ON_CHANGE false, every finished cycle whose window *)
(* yielded a reading printed exactly one report, that of its last reading, *)
(* also when the text equals the one reported before; a cycle without a    *)
(* reading printed none.                                                   *)
(***************************************************************************)
C13_EveryReadingReportedWhenDisabled ==
    ~onlyOnChange =>
        \A c \in 1..Len(cyc) :
            /\ cyc[c] = <<>> => ReportsIn(c, c) = {}
            /\ cyc[c] # <<>> =>
                  \E k \in 1..Len(reports) :
                      /\ ReportsIn(c, c) = {k}
                      /\ reports[k].w = cyc[c][1].w
                      /\ reports[k].raw = cyc[c][1].raw

\* the same text in two cycles in a row, reported twice
C13_Witness ==
    /\ ~onlyOnChange
    /\ Len(cyc) = 2
    /\ cyc[1] # <<>>
    /\ cyc[2] # <<>>
    /\ cyc[1][1].w = cyc[2][1].w
    /\ Len(reports) = 2
    /\ reports[1].w = reports[2].w
    /\ last_weight = <<reports[2].w>>

(***************************************************************************)
(* C15: when read_window is entered the clock has advanced, since the head *)
(* of the burst, by REPEATS_PER_BURST x (len(CMD) x CHAR_DELAY_MS +         *)
(* LINE_DELAY_MS) = 13 x (10 x 7 + 9) = 1027 ms of sleeps, and never by    *)
(* less at any later point of the cycle.                                   *)
(***************************************************************************)
BurstDelayMs == REPEATS_PER_BURST * (Len(CMD) * CHAR_DELAY_MS + LINE_DELAY_MS)

C15_BurstDelayLowerBound ==
    /\ BurstDelayMs = 1027
    /\ (pc = "window" =>
           now = charDelays * CHAR_DELAY_MS + lineDelays * LINE_DELAY_MS)
    /\ (pc \in InWindow \cup {"report", "assign"} => now >= BurstDelayMs)
    /\ (pc \in BurstPositions => now < BurstDelayMs)

C15_Witness ==
    /\ pc = "window"
    /\ now = 1027
    /\ writes = 130
    /\ Len(cyc) = 2

(***************************************************************************)
(* C17: when serial.Serial(...) raises at startup the process has ended    *)
(* with that exception in flight: no byte was written, no readline call    *)
(* made, no report and no "Stopped." printed, nothing opened or closed,    *)
(* and no further step of the program follows (the open is not retried).   *)
(***************************************************************************)
OpenFailed == opened = 0 /\ exc = "SerialException"

C17_OpenFailureEndsProcess ==
    /\ [](OpenFailed =>
            /\ pc = "exited"
            /\ writes = 0
            /\ sent = ""
            /\ reads = 0
            /\ now = 0
            /\ reports = <<>>
            /\ last_weight = <<>>
            /\ cyc = <<>>
            /\ stopped = 0
            /\ closed = 0
            /\ cancelAt = "none")
    /\ [][~OpenFailed]_vars
    /\ [][(pc = "start" /\ exc' = "SerialException") => OpenFailed']_vars

C17_Witness == OpenFailed /\ pc = "exited" /\ dev = "scale" /\ onlyOnChange

(***************************************************************************)
(* C14: read_window terminates.  A window that was entered is left, by the *)
(* return or by an exception raised in it; once the clock has reached the  *)
(* deadline the next step of the function is its return, with the readings *)
(* collected so far, whatever empty reads, partial reads and full lines    *)
(* came before; the window never outlasts the deadline by more than one    *)
(* read; an empty read raises nothing, adds no reading and leaves the      *)
(* function in its loop, and the function returns only at or after the     *)
(* deadline.                                                               *)
(***************************************************************************)
Returned == pc = "report"

Raised == exc # "none" \/ cancelAt \in InWindow

IsEmptyRead == pc = "wcheck" /\ reads' = reads + 1 /\ heard' = heard

C14_WindowTerminates ==
    /\ (pc \in InWindow ~> (Returned \/ Raised))
    /\ [](pc = "wcheck" => now < end + READ_TIMEOUT_MS + EMPTY_SLEEP_MS)
    /\ [](Returned => now >= end /\ end = BurstDelayMs + READ_WINDOW_MS)
    /\ [][ (pc = "wcheck" /\ now >= end /\ cancelAt' = cancelAt)
             => pc' = "report" /\ exc' = "none" /\ readings' = readings ]_vars
    /\ [][ (IsEmptyRead /\ exc' = "none")
             => /\ pc' = "wcheck"
                /\ readings' = readings
                /\ now' = now + READ_TIMEOUT_MS + EMPTY_SLEEP_MS ]_vars
    /\ [][ (pc = "wcheck" /\ pc' = "report") => now >= end ]_vars

\* a window of empty reads, a partial read and a full line that has returned
C14_Witness ==
    /\ Returned
    /\ heard = <<ReplyPartial, ReplyNA>>
    /\ reads > 2 + nlines
    /\ cancelAt = "none"

(***************************************************************************)
(* C18: the change test compares the numeric text, not the number.  With   *)
(* ONLY_PRINT_ON_CHANGE, of two successive cycles that yield readings: if  *)
(* the texts differ the second cycle prints one report with its text, also *)
(* when the two texts denote the same number, and the assignment that      *)
(* follows stores that text in last_weight; if the texts are equal the     *)
(* second cycle prints nothing and leaves last_weight alone, also when the *)
(* unit or the raw line differs.                                           *)
(***************************************************************************)
\* c and d are successive cycles with a reading
Successive(c, d) ==
    /\ c \in YieldCycles
    /\ d \in YieldCycles
    /\ c < d
    /\ YieldCycles \cap ((c + 1)..(d - 1)) = {}

C18_TextNotNumberCompared ==
    /\ [](onlyOnChange =>
            \A c, d \in 1..Len(cyc) :
                Successive(c, d) =>
                    /\ WeightOf(c) # WeightOf(d) =>
                          \E k \in 1..Len(reports) :
                              /\ ReportsIn(d, d) = {k}
                              /\ reports[k].w = WeightOf(d)
                              /\ reports[k].raw = cyc[d][1].raw
                    /\ WeightOf(c) = WeightOf(d) => ReportsIn(d, d) = {})
    /\ [][ (IsAssign /\ onlyOnChange /\ last_weight # <<>>
              /\ NumEq(LastReading(readings).w, last_weight[1]))
             => /\ last_weight' = <<LastReading(readings).w>>
                /\ last_weight' # last_weight ]_vars
    /\ [][ (pc = "report" /\ onlyOnChange /\ readings # <<>>
              /\ last_weight = <<LastReading(readings).w>>
              /\ cancelAt' = cancelAt)
             => reports' = reports /\ last_weight' = last_weight ]_vars

\* "5", "+5", "5.0" in three cycles: one number in three texts, each reported
\* and stored
C18_WitnessThreeTexts ==
    /\ dev = "variants"
    /\ onlyOnChange
    /\ Len(cyc) = 3
    /\ YieldCycles = {1, 2, 3}
    /\ WeightOf(1) = <<"5">>
    /\ WeightOf(2) = <<"+", "5">>
    /\ WeightOf(3) = <<"5", ".", "0">>
    /\ NumEq(WeightOf(1), WeightOf(2))
    /\ NumEq(WeightOf(2), WeightOf(3))
    /\ Len(reports) = 3
    /\ last_weight = <<WeightOf(3)>>

\* "+5", then "5", then "5 g": the second is the same number in another text
\* and is reported and stored; the third changes the unit and the raw line but
\* not the text, and is not reported
C18_Witness ==
    /\ dev = "variants"
    /\ onlyOnChange
    /\ Len(cyc) = 3
    /\ YieldCycles = {1, 2, 3}
    /\ WeightOf(1) = <<"+", "5">>
    /\ WeightOf(2) = <<"5">>
    /\ NumEq(WeightOf(1), WeightOf(2))
    /\ ReportsIn(2, 2) # {}
    /\ WeightOf(3) = WeightOf(2)
    /\ cyc[2][1].u = <<>>
    /\ cyc[3][1].u = <<"g">>
    /\ cyc[2][1].raw # cyc[3][1].raw
    /\ ReportsIn(3, 3) = {}
    /\ Len(reports) = 2
    /\ last_weight = <<WeightOf(3)>>

(***************************************************************************)
(* The parse step of read_window (lines 33-39) applied to one line, for    *)
(* lines built from the parts RE_WEIGHT names: an optional sign, digits,   *)
(* an optional fraction, optional whitespace, an optional unit; around     *)
(* them the whitespace and line ending that strip() removes.               *)
(***************************************************************************)
LeadParts == {<<>>, <<" ">>}

SignParts == {<<>>, <<"+">>, <<"-">>}

DigitParts == {<<"0">>, <<"5">>, <<"1", "2">>, <<"0", "0", "7">>}

FractionParts == {<<>>, <<".", "5">>, <<".", "5", "0">>}

GapParts == {<<>>, <<" ">>, <<" ", "\t">>}

UnitParts == {<<>>, <<"g">>, <<"k", "g">>, <<"%">>, <<"L", "b">>}

TailParts == {<<>>, <<"\n">>, <<"\r", "\n">>}

\* main() at rest
PollerAtRest ==
    /\ pc = "start"
    /\ onlyOnChange = TRUE
    /\ dev = "scale"
    /\ cancelAt = "none"
    /\ exc = "none"
    /\ opened = 0
    /\ closed = 0
    /\ stopped = 0
    /\ rep = 0
    /\ idx = 1
    /\ writes = 0
    /\ sent = ""
    /\ charDelays = 0
    /\ lineDelays = 0
    /\ reads = 0
    /\ heard = <<>>
    /\ now = 0
    /\ end = 0
    /\ readings = <<>>
    /\ nlines = 0
    /\ last_weight = <<>>
    /\ reports = <<>>
    /\ cyc = <<>>

\* readline has returned a line made of these parts
ParseInit ==
    /\ PollerAtRest
    /\ script = NoScript
    /\ \E lead \in LeadParts, sign \in SignParts, digits \in DigitParts,
          frac \in FractionParts, gap \in GapParts, unit \in UnitParts,
          tail \in TailParts :
          LET number == sign \o digits \o frac
              suffix == IF unit = <<>> THEN <<>> ELSE gap \o unit
          IN  probe = [line    |-> lead \o number \o gap \o unit \o tail,
                       w       |-> number,
                       u       |-> unit,
                       trimmed |-> number \o suffix,
                       out     |-> <<>>,
                       done    |-> FALSE]

\* raw = line.decode(...).strip(); m = RE_WEIGHT.search(raw); readings.append
Parse ==
    /\ ~probe.done
    /\ probe.line # <<>>
    /\ probe' = [probe EXCEPT !.out = ReadingsOf(probe.line), !.done = TRUE]
    /\ UNCHANGED <<pollerVars, script>>

ParseNext == Parse

ParseSpec == ParseInit /\ [][ParseNext]_vars

(***************************************************************************)
(* C16: for every line made of an optional sign, digits, an optional       *)
(* fraction, optional whitespace and an optional unit of letters or "%",   *)
(* the parse step yields one reading that carries exactly the numeric text *)
(* of the line, exactly its unit text (the empty text when there is none)  *)
(* and the trimmed line as raw.                                            *)
(***************************************************************************)
C16_ValidLineParsedExactly ==
    probe.done =>
        probe.out = << [w |-> probe.w, u |-> probe.u, raw |-> probe.trimmed] >>

\* " -12.50 \tkg\r\n" has been parsed
C16_Witness ==
    /\ probe.done
    /\ probe.line = <<" ", "-", "1", "2", ".", "5", "0", " ", "\t", "k", "g",
                      "\r", "\n">>
    /\ Len(probe.out) = 1
    /\ probe.out[1].w = <<"-", "1", "2", ".", "5", "0">>
    /\ probe.out[1].u = <<"k", "g">>
    /\ probe.out[1].raw = <<"-", "1", "2", ".", "5", "0", " ", "\t", "k", "g">>

\* "+5 \n", without a unit, has been parsed
C16_WitnessNoUnit ==
    /\ probe.done
    /\ probe.line = <<"+", "5", " ", "\n">>
    /\ probe.out = << [w |-> <<"+", "5">>, u |-> <<>>, raw |-> <<"+", "5">>] >>

(***************************************************************************)
(* copy_test_to_main.py, the pre-build script.  script.fs maps a path of   *)
(* the project directory to << >> (no such file) or << its content >>; the *)
(* content of a file is named after the file it was first found in.        *)
(* script.fs0 is the file system when the script started, script.wrote the *)
(* destinations copy2 has written.                                         *)
(***************************************************************************)
test_mapping ==
    ("test_00_blink" :> "test/test_00_blink/test_00_blink.c") @@
    ("test_01_buttons" :> "test/test_01_buttons/test_01_buttons.c") @@
    ("test_02_encoder" :> "test/test_02_encoder/test_02_encoder.c")

\* an environment of platformio.ini that is not a key of test_mapping
OtherEnv == "esp32dev"

EnvNames == DOMAIN test_mapping \cup {OtherEnv}

TestFiles == {test_mapping[k] : k \in DOMAIN test_mapping}

dst_path == "main/main.c"

pin_def_src == "test/common/pin_definitions.h"

pin_def_dst == "main/pin_definitions.h"

Stale == "left by an earlier build"

Paths == TestFiles \cup {pin_def_src, dst_path, pin_def_dst}

\* os.path.exists
Exists(fs, path) == fs[path] # <<>>

\* shutil.copy2(src, dst), the copy taken to succeed
Copy2(fs, src, dst) == [fs EXCEPT ![dst] = fs[src]]

\* env["PIOENV"] and the project directory as the build finds them
CopyInit ==
    /\ PollerAtRest
    /\ probe = NoProbe
    /\ \E e \in EnvNames, present \in SUBSET (TestFiles \cup {pin_def_src}),
          built \in SUBSET {dst_path, pin_def_dst} :
          LET files == [p \in Paths |->
                          IF p \in present THEN <<p>>
                          ELSE IF p \in built THEN <<Stale>>
                          ELSE <<>>]
          IN  script = [pc      |-> "lookup",
                        env     |-> e,
                        fs      |-> files,
                        fs0     |-> files,
                        wrote   |-> {},
                        printed |-> <<>>]

\* `if env_name in test_mapping:` is true
LookupMapped ==
    /\ script.pc = "lookup"
    /\ script.env \in DOMAIN test_mapping
    /\ script' = [script EXCEPT !.pc = "exists_src"]
    /\ UNCHANGED <<pollerVars, probe>>

\* `if env_name in test_mapping:` is false: the script does nothing
LookupUnmapped ==
    /\ script.pc = "lookup"
    /\ script.env \notin DOMAIN test_mapping
    /\ script' = [script EXCEPT !.pc = "done"]
    /\ UNCHANGED <<pollerVars, probe>>

\* the test file exists: print, shutil.copy2(src_path, dst_path)
CopyMain ==
    /\ script.pc = "exists_src"
    /\ Exists(script.fs, test_mapping[script.env])
    /\ script' = [script EXCEPT
                    !.printed = Append(@, [msg  |-> "Copying",
                                           file |-> test_mapping[script.env]]),
                    !.fs = Copy2(@, test_mapping[script.env], dst_path),
                    !.wrote = @ \cup {dst_path},
                    !.pc = "exists_pin"]
    /\ UNCHANGED <<pollerVars, probe>>

\* a variant that copies the pin definitions although the test file is missing
WarnMissingCopiesPins ==
    /\ script.pc = "exists_src"
    /\ ~Exists(script.fs, test_mapping[script.env])
    /\ script' = [script EXCEPT
                    !.printed = Append(@, [msg  |-> "Warning",
                                           file |-> test_mapping[script.env]]),
                    !.pc = "exists_pin"]
    /\ UNCHANGED <<pollerVars, probe>>

\* the `else` of line 39: the test file is missing, a warning is printed
WarnMissing ==
    /\ script.pc = "exists_src"
    /\ ~Exists(script.fs, test_mapping[script.env])
    /\ script' = [script EXCEPT
                    !.printed = Append(@, [msg  |-> "Warning",
                                           file |-> test_mapping[script.env]]),
                    !.pc = "done"]
    /\ UNCHANGED <<pollerVars, probe>>

\* pin_definitions.h exists under test/common: shutil.copy2 to main/
CopyPins ==
    /\ script.pc = "exists_pin"
    /\ Exists(script.fs, pin_def_src)
    /\ script' = [script EXCEPT
                    !.fs = Copy2(@, pin_def_src, pin_def_dst),
                    !.wrote = @ \cup {pin_def_dst},
                    !.pc = "done"]
    /\ UNCHANGED <<pollerVars, probe>>

\* it does not exist: nothing more is done
SkipPins ==
    /\ script.pc = "exists_pin"
    /\ ~Exists(script.fs, pin_def_src)
    /\ script' = [script EXCEPT !.pc = "done"]
    /\ UNCHANGED <<pollerVars, probe>>

CopyNext ==
    \/ LookupMapped
    \/ LookupUnmapped
    \/ CopyMain
    \/ WarnMissing
    \/ CopyPins
    \/ SkipPins

CopySpec == CopyInit /\ [][CopyNext]_vars

(***************************************************************************)
(* C19: the finished script has written main/main.c exactly when the       *)
(* environment name is a key of test_mapping and the mapped test file      *)
(* existed; main/pin_definitions.h is written only after main/main.c was   *)
(* written in the same run and only if test/common/pin_definitions.h       *)
(* exists; for another environment or a missing test file the two files    *)
(* under main/ are at every moment as they were found, absent or not.      *)
(***************************************************************************)
Mapped == script.env \in DOMAIN test_mapping

TestFileFound == Mapped /\ Exists(script.fs0, test_mapping[script.env])

MainFiles == {dst_path, pin_def_dst}

C19_CopyOnlyForMappedExistingTest ==
    script.pc # "off" =>
        /\ script.pc = "done" => (dst_path \in script.wrote <=> TestFileFound)
        /\ dst_path \in script.wrote =>
              /\ TestFileFound
              /\ script.fs[dst_path] = script.fs0[test_mapping[script.env]]
        /\ pin_def_dst \in script.wrote =>
              /\ dst_path \in script.wrote
              /\ Exists(script.fs0, pin_def_src)
              /\ script.fs[pin_def_dst] = script.fs0[pin_def_src]
        /\ script.wrote \subseteq MainFiles
        /\ \A p \in MainFiles \ script.wrote : script.fs[p] = script.fs0[p]
        /\ ~TestFileFound =>
              /\ script.wrote = {}
              /\ \A p \in MainFiles : script.fs[p] = script.fs0[p]

\* test_01_buttons built over the files of an earlier build: both replaced
C19_Witness ==
    /\ script.pc = "done"
    /\ script.env = "test_01_buttons"
    /\ script.fs0[dst_path] = <<Stale>>
    /\ script.fs0[pin_def_dst] = <<Stale>>
    /\ script.wrote = {dst_path, pin_def_dst}
    /\ script.fs[dst_path] = <<"test/test_01_buttons/test_01_buttons.c">>
    /\ script.fs[pin_def_dst] = <<pin_def_src>>

\* test_00_blink.c is missing while other test files and the pin definitions
\* exist: a warning, and main/ as it was
C19_WitnessMissing ==
    /\ script.pc = "done"
    /\ script.env = "test_00_blink"
    /\ ~Exists(script.fs0, test_mapping["test_00_blink"])
    /\ Exists(script.fs0, test_mapping["test_01_buttons"])
    /\ Exists(script.fs0, pin_def_src)
    /\ script.fs0[dst_path] = <<Stale>>
    /\ script.wrote = {}
    /\ script.fs = script.fs0
    /\ Len(script.printed) = 1
    /\ script.printed[1].msg = "Warning"

\* an environment that is not mapped: nothing printed, nothing written
C19_WitnessUnmapped ==
    /\ script.pc = "done"
    /\ script.env = OtherEnv
    /\ script.fs0[test_mapping["test_00_blink"]] # <<>>
    /\ script.wrote = {}
    /\ script.fs = script.fs0
    /\ script.printed = <<>>

====
